---- MODULE Spec2Model ----
(***************************************************************************)
(* Event ROI Calculator (src/app.py): a Streamlit script that is re-run    *)
(* from its first line on every widget interaction.                        *)
(*                                                                         *)
(* Values.                                                                 *)
(*  - A rate is a whole number of hundredths p in 0..100 and stands for the *)
(*    IEEE-754 double nearest to p/100 (what the literals 0.30, 0.05, ...  *)
(*    of the source and a slider position are in Python).                  *)
(*  - count * rate is a double product.  TimesRate keeps its real value in *)
(*    hundredths together with the side on which the double falls when the *)
(*    real value is exactly k + 1/2, which is all that round() can see.    *)
(*  - Money is whole francs (an integer-valued double below 2^53 is exact);*)
(*    a money quotient is the fraction [num, den] in lowest terms of which *)
(*    the Python float is the nearest double.                              *)
(*  - A string is a sequence of one-character strings.                     *)
(***************************************************************************)
EXTENDS Integers, Sequences, FiniteSets, TLC

VARIABLES secrets, session, env

vars == <<secrets, session, env>>

(***************************************************************************)
(* Integer helpers                                                         *)
(***************************************************************************)
RECURSIVE Pow2(_)
Pow2(k) == IF k <= 0 THEN 1 ELSE 2 * Pow2(k - 1)

\* 2^k modulo m, by repeated doubling (never exceeds 2*m)
RECURSIVE Pow2Mod(_, _)
Pow2Mod(k, m) == IF k = 0 THEN 1 % m ELSE (2 * Pow2Mod(k - 1, m)) % m

\* floor(log2(v)) for v >= 1
RECURSIVE Log2Floor(_)
Log2Floor(v) == IF v < 2 THEN 0 ELSE 1 + Log2Floor(v \div 2)

Abs(x) == IF x < 0 THEN -x ELSE x

RECURSIVE Gcd(_, _)
Gcd(a, b) == IF b = 0 THEN a ELSE Gcd(b, a % b)

\* the fraction n/d (d > 0) in lowest terms
Frac(n, d) ==
    LET g == Gcd(Abs(n), d)
    IN  [num |-> n \div g, den |-> d \div g]

(***************************************************************************)
(* IEEE-754 double arithmetic of  count * rate                             *)
(*                                                                         *)
(* The double of p/100 (0 < p <= 100) is M / 2^E with 2^52 <= M < 2^53,    *)
(* E = 52 + RateExp(p), M the integer nearest to p * 2^E / 100.  Its error *)
(* is  RateErr(p) / (100 * 2^E)  with RateErr(p) = 100*M - p*2^E, which is *)
(* found from p * 2^E modulo 100.                                          *)
(***************************************************************************)
\* least j with p * 2^j >= 100, for 1 <= p <= 100
RECURSIVE RateExp(_)
RateExp(p) == IF p >= 100 THEN 0 ELSE 1 + RateExp(2 * p)

RateErrOf(p) ==
    IF p = 0 THEN 0
    ELSE LET E   == 52 + RateExp(p)
             rho == (p * Pow2Mod(E, 100)) % 100
         IN  IF rho = 0 THEN 0
             ELSE IF rho < 50 THEN -rho
             ELSE IF rho > 50 THEN 100 - rho
             ELSE IF (p * Pow2Mod(E, 200)) % 200 >= 100 THEN 50 ELSE -50

\* the errors of the 101 rates, computed once
RateErrs == [p \in 0..100 |-> RateErrOf(p)]

RateErr(p) == RateErrs[p]

(***************************************************************************)
(* n * rate(p) when its real value n*p/100 is exactly t = k + 1/2: the     *)
(* exact product is t + n*RateErr(p)/(100*2^E), and it rounds to the       *)
(* double t exactly when that offset is at most half the spacing of the    *)
(* doubles next to t (2^(b-52) for t in [2^b, 2^(b+1)); half of it below   *)
(* t = 1/2, a power of two).  -1: the double product is below t, 0: it is  *)
(* t, 1: it is above t.  0 too when n*p/100 is no such tie.                *)
(***************************************************************************)
TieSide(n, p) ==
    IF (n * p) % 100 # 50 THEN 0
    ELSE LET k   == (n * p) \div 100
             d   == RateErr(p)
             b   == Log2Floor(2 * k + 1) - 1
             rhs == 100 * Pow2(RateExp(p) + b + 1)
             m   == n * Abs(d)
         IN  IF d = 0 THEN 0
             ELSE IF d > 0 THEN (IF 4 * m <= rhs THEN 0 ELSE 1)
             ELSE IF k = 0 THEN (IF 8 * m <= rhs THEN 0 ELSE -1)
             ELSE (IF 4 * m <= rhs THEN 0 ELSE -1)

\* Python  n * rate  for an int n >= 0 and the float rate p/100
TimesRate(n, p) == [hundredths |-> n * p, side |-> TieSide(n, p)]

\* A bug a reader could expect: ties rounded half up instead of half to even
RoundHalfUp(x) ==
    LET k == x.hundredths \div 100
        r == x.hundredths % 100
    IN  IF r < 50 THEN k
        ELSE IF r > 50 THEN k + 1
        ELSE IF x.side < 0 THEN k ELSE k + 1

(***************************************************************************)
(* Python round(x) of a double x >= 0: the nearest integer, an exact .5    *)
(* of the double going to the even neighbour.  A real value that is not a  *)
(* tie is at least 1/100 away from one, far more than the double's error.  *)
(***************************************************************************)
round(x) ==
    LET k == x.hundredths \div 100
        r == x.hundredths % 100
    IN  IF r < 50 THEN k
        ELSE IF r > 50 THEN k + 1
        ELSE IF x.side < 0 THEN k
        ELSE IF x.side > 0 THEN k + 1
        ELSE IF k % 2 = 0 THEN k ELSE k + 1

(***************************************************************************)
(* Strings                                                                 *)
(***************************************************************************)
Whitespace == {" ", "\t", "\n"}

RECURSIVE LStrip(_)
LStrip(s) == IF s # <<>> /\ Head(s) \in Whitespace THEN LStrip(Tail(s)) ELSE s

RECURSIVE RStrip(_)
RStrip(s) ==
    IF s # <<>> /\ s[Len(s)] \in Whitespace
    THEN RStrip(SubSeq(s, 1, Len(s) - 1))
    ELSE s

\* A bug a reader could expect: only the leading whitespace removed
StripLeft(s) == LStrip(s)

\* str.strip()
strip(s) == RStrip(LStrip(s))

(***************************************************************************)
(* Streamlit collaborators                                                 *)
(*                                                                         *)
(* session holds, per widget, <<>> (never set: the widget returns the      *)
(* default the script passes) or <<v>> (the value the operator chose).     *)
(* secrets is <<>> (no ADMIN_KEY configured) or <<s>>.                     *)
(***************************************************************************)
Widget(state, default) == IF state = <<>> THEN default ELSE state[1]

\* st.secrets.get(key, default) for the one key the script reads
SecretsGet(default) == IF secrets = <<>> THEN default ELSE secrets[1]

NaN == [num |-> 0, den |-> 0]

isnan(x) == x.den = 0

FallbackKey == <<"s", "c", "i", "n", "o", "3", "6", "0">>

AdminWidgets ==
    {"baseline_followup_rate", "baseline_close_rate", "lost_unassigned_rate",
     "dormant_rate", "scino_followup_rate", "scino_close_rate", "scino_cost",
     "resp_time_hours"}

InputWidgets == {"leads", "event_spend", "deal_value", "admin_key"}

FreshSession == [w \in InputWidgets \cup AdminWidgets |-> <<>>]

\* The script's namespace before any line has run
BlankEnv ==
    [leads |-> 0, event_spend |-> 0, deal_value |-> 0, admin_key |-> <<>>,
     is_admin |-> FALSE,
     baseline_followup_rate |-> 0, baseline_close_rate |-> 0,
     lost_unassigned_rate |-> 0, dormant_rate |-> 0,
     scino_followup_rate |-> 0, scino_close_rate |-> 0,
     scino_cost |-> 0, resp_time_hours |-> 0,
     cost_per_lead |-> NaN,
     worked_leads_base |-> 0, closed_deals_base |-> 0, revenue_base |-> 0,
     worked_leads_scino |-> 0, closed_deals_scino |-> 0, revenue_scino |-> 0,
     incremental_gain |-> 0, roi_multiple |-> NaN,
     unassigned_leads |-> 0, recovered_lead_value |-> NaN,
     funnel_base |-> <<>>, funnel_scino |-> <<>>,
     roi_txt |-> [text |-> "", of |-> NaN]]

(***************************************************************************)
(* The script, section by section.  Each operator takes the namespace e    *)
(* left by the lines above it and returns the namespace after its lines.   *)
(***************************************************************************)
\* A bug a reader could expect: only one side trimmed
IsAdminLeftTrimmed(key) == StripLeft(key) = SecretsGet(FallbackKey)

\* is_admin = admin_key.strip() == st.secrets.get("ADMIN_KEY", "scino360")
IsAdmin(key) == strip(key) = SecretsGet(FallbackKey)

\* SIDEBAR INPUTS
SidebarInputs(e, w) ==
    LET key == Widget(w.admin_key, <<>>)
    IN  [e EXCEPT !.leads       = Widget(w.leads, 150),
                  !.event_spend = Widget(w.event_spend, 1800000),
                  !.deal_value  = Widget(w.deal_value, 18000000),
                  !.admin_key   = key,
                  !.is_admin    = IsAdmin(key)]

\* A bug a reader could expect: the assumptions left as the last run set them
KeepSettings(e) == e

\* DEFAULT / ADMIN SETTINGS, the literals
DefaultSettings(e) ==
    [e EXCEPT !.baseline_followup_rate = 30,
              !.baseline_close_rate    = 5,
              !.lost_unassigned_rate   = 40,
              !.dormant_rate           = 30,
              !.scino_followup_rate    = 100,
              !.scino_close_rate       = 15,
              !.scino_cost             = 10000000,
              !.resp_time_hours        = 24]

\* The admin widgets, each created with the current value as its default
ReadAdminWidgets(e, w) ==
    [e EXCEPT
       !.baseline_followup_rate = Widget(w.baseline_followup_rate, e.baseline_followup_rate),
       !.baseline_close_rate    = Widget(w.baseline_close_rate, e.baseline_close_rate),
       !.lost_unassigned_rate   = Widget(w.lost_unassigned_rate, e.lost_unassigned_rate),
       !.dormant_rate           = Widget(w.dormant_rate, e.dormant_rate),
       !.scino_followup_rate    = Widget(w.scino_followup_rate, e.scino_followup_rate),
       !.scino_close_rate       = Widget(w.scino_close_rate, e.scino_close_rate),
       !.scino_cost             = Widget(w.scino_cost, e.scino_cost),
       !.resp_time_hours        = Widget(w.resp_time_hours, e.resp_time_hours)]

\* A bug a reader could expect: the admin widgets read whatever is_admin says
AdminSettingsUngated(e, w) == ReadAdminWidgets(e, w)

\* A bug a reader could expect: one slider's value stored in its neighbour too
AdminSettingsCrossed(e, w) ==
    IF e.is_admin
    THEN [ReadAdminWidgets(e, w) EXCEPT
            !.baseline_close_rate = Widget(w.baseline_followup_rate, e.baseline_close_rate)]
    ELSE e

\* if is_admin: ...
AdminSettings(e, w) == IF e.is_admin THEN ReadAdminWidgets(e, w) ELSE e

\* A bug a reader could expect: floor division
CostPerLeadFloor(e) ==
    [e EXCEPT !.cost_per_lead = Frac(e.event_spend \div e.leads, 1)]

\* cost_per_lead = event_spend / leads
CostPerLead(e) ==
    [e EXCEPT !.cost_per_lead = Frac(e.event_spend, e.leads)]

\* A bug a reader could expect: closed deals taken from all leads
BaselineFromLeads(e) ==
    LET worked == round(TimesRate(e.leads, e.baseline_followup_rate))
        closed == round(TimesRate(e.leads, e.baseline_close_rate))
    IN  [e EXCEPT !.worked_leads_base = worked,
                  !.closed_deals_base = closed,
                  !.revenue_base      = closed * e.deal_value]

\* Baseline (without Scino360)
Baseline(e) ==
    LET worked == round(TimesRate(e.leads, e.baseline_followup_rate))
        closed == round(TimesRate(worked, e.baseline_close_rate))
    IN  [e EXCEPT !.worked_leads_base = worked,
                  !.closed_deals_base = closed,
                  !.revenue_base      = closed * e.deal_value]

\* With Scino360
WithScino(e) ==
    LET worked == round(TimesRate(e.leads, e.scino_followup_rate))
        closed == round(TimesRate(worked, e.scino_close_rate))
    IN  [e EXCEPT !.worked_leads_scino = worked,
                  !.closed_deals_scino = closed,
                  !.revenue_scino      = closed * e.deal_value]

\* A bug a reader could expect: a zero cost reported as a zero multiple
RoiZeroForFree(e) ==
    LET gain == e.revenue_scino - e.revenue_base
    IN  [e EXCEPT !.incremental_gain = gain,
                  !.roi_multiple     =
                      IF e.scino_cost > 0
                      THEN Frac(gain - e.scino_cost, e.scino_cost)
                      ELSE Frac(0, 1)]

\* incremental_gain, roi_multiple
Roi(e) ==
    LET gain == e.revenue_scino - e.revenue_base
    IN  [e EXCEPT !.incremental_gain = gain,
                  !.roi_multiple     =
                      IF e.scino_cost > 0
                      THEN Frac(gain - e.scino_cost, e.scino_cost)
                      ELSE NaN]

\* A bug a reader could expect: the dormant share counted as unassigned
RecoveredFromDormant(e) ==
    LET unassigned == round(TimesRate(e.leads, e.dormant_rate))
    IN  [e EXCEPT !.unassigned_leads     = unassigned,
                  !.recovered_lead_value =
                      Frac(unassigned * e.cost_per_lead.num, e.cost_per_lead.den)]

\* Value recovered from "hidden" leads
Recovered(e) ==
    LET unassigned == round(TimesRate(e.leads, e.lost_unassigned_rate))
    IN  [e EXCEPT !.unassigned_leads     = unassigned,
                  !.recovered_lead_value =
                      Frac(unassigned * e.cost_per_lead.num, e.cost_per_lead.den)]

\* CALCULATIONS
Calculations(e) == Recovered(Roi(WithScino(Baseline(CostPerLead(e)))))

\* funnel_fig: the stages and the values handed to the chart
funnel_fig(leads_total, worked, closed) ==
    <<[stage |-> "Leads Collected",    value |-> leads_total],
      [stage |-> "Worked/Followed Up", value |-> worked],
      [stage |-> "Closed Deals",       value |-> closed]>>

\* roi_txt: the placeholder, or the value under the format "{:,.2f}x"
RoiTxt(roi) ==
    IF isnan(roi) THEN [text |-> "-", of |-> NaN]
    ELSE [text |-> "{:,.2f}x", of |-> roi]

\* FUNNEL COMPARISON and VALUE HIGHLIGHTS, what they are given
Presentation(e) ==
    [e EXCEPT
       !.funnel_base  = funnel_fig(e.leads, e.worked_leads_base, e.closed_deals_base),
       !.funnel_scino = funnel_fig(e.leads, e.worked_leads_scino, e.closed_deals_scino),
       !.roi_txt      = RoiTxt(e.roi_multiple)]

\* One run of the script over the namespace e with the widget states w
Script(e, w) ==
    Presentation(Calculations(AdminSettings(DefaultSettings(SidebarInputs(e, w)), w)))

(***************************************************************************)
(* Bounds and the values the operator's widgets are given                  *)
(***************************************************************************)
MaxLeads == 8
MaxPad   == 2

OtherKey == <<"k", "e", "y">>

LeadsChoices  == {1, 45, 150}
SpendChoices  == {0, 100}
DealChoices   == {1}
KeyChoices    ==
    {FallbackKey, <<" ">> \o FallbackKey \o <<"\n">>, SubSeq(FallbackKey, 1, 7)}

\* the values tried on each admin widget (sliders: hundredths)
AdminChoices ==
    [baseline_followup_rate |-> {70},
     baseline_close_rate    |-> {50},
     lost_unassigned_rate   |-> {70},
     dormant_rate           |-> {50},
     scino_followup_rate    |-> {50},
     scino_close_rate       |-> {7},
     scino_cost             |-> {0, 5000000},
     resp_time_hours        |-> {72}]

\* whitespace runs of at most MaxPad characters
Pads == UNION {[1..n -> Whitespace] : n \in 0..MaxPad}

Cores ==
    {<<>>, FallbackKey, OtherKey, SubSeq(FallbackKey, 1, 7),
     FallbackKey \o <<"0">>,
     SubSeq(FallbackKey, 1, 5) \o <<" ">> \o SubSeq(FallbackKey, 6, 8)}

GateKeys == {l \o c \o r : l \in Pads, c \in Cores, r \in Pads}

SecretsChoices == {<<>>, <<OtherKey>>, <<FallbackKey \o <<" ">>>>}

(***************************************************************************)
(* Actions: one widget interaction, and the full re-run it triggers.       *)
(* A run that does not render the admin widgets may keep or drop what the  *)
(* session holds for them; the script does not decide which.               *)
(***************************************************************************)
Rerun(w) ==
    /\ env' = Script(env, w)
    /\ session' \in
          IF env'.is_admin THEN {w}
          ELSE {w, [x \in DOMAIN w |-> IF x \in AdminWidgets THEN <<>> ELSE w[x]]}
    /\ UNCHANGED secrets

RerunScript == Rerun(session)

SetLeads(n) == Rerun([session EXCEPT !.leads = <<n>>])

SetEventSpend(v) == Rerun([session EXCEPT !.event_spend = <<v>>])

SetDealValue(v) == Rerun([session EXCEPT !.deal_value = <<v>>])

SetAdminKey(k) == Rerun([session EXCEPT !.admin_key = <<k>>])

\* the admin widgets exist only in a run with is_admin
SetAdminWidget(x, v) ==
    /\ env.is_admin
    /\ Rerun([session EXCEPT ![x] = <<v>>])

Init ==
    /\ secrets = <<>>
    /\ session = FreshSession
    /\ env = Script(BlankEnv, FreshSession)

Next ==
    \/ RerunScript
    \/ \E n \in LeadsChoices : SetLeads(n)
    \/ \E v \in SpendChoices : SetEventSpend(v)
    \/ \E v \in DealChoices : SetDealValue(v)
    \/ \E k \in KeyChoices : SetAdminKey(k)
    \/ \E x \in AdminWidgets : \E v \in AdminChoices[x] : SetAdminWidget(x, v)

Spec == Init /\ [][Next]_vars

(***************************************************************************)
(* The admin gate over every key of GateKeys and every configured secret:  *)
(* the key is drawn first, then the script runs on it.                     *)
(***************************************************************************)
InitGate ==
    /\ secrets \in SecretsChoices
    /\ env = BlankEnv
    /\ \E k \in GateKeys : session = [FreshSession EXCEPT !.admin_key = <<k>>]

NextGate == RerunScript

SpecGate == InitGate /\ [][NextGate]_vars

(***************************************************************************)
(* The two funnels over the lead counts up to MaxLeads and every slider    *)
(* position: the inputs are drawn first, then the script runs on them.     *)
(***************************************************************************)
Step5 == {5 * i : i \in 0..20}

InitFunnel ==
    /\ secrets = <<>>
    /\ env = BlankEnv
    /\ \E n \in (1..MaxLeads) \cup {45}, c \in 0..100 :
          \/ \E f \in Step5 :
                session = [FreshSession EXCEPT !.admin_key = <<FallbackKey>>,
                                               !.leads = <<n>>,
                                               !.baseline_followup_rate = <<f>>,
                                               !.baseline_close_rate = <<c>>]
          \/ \E f \in 0..100 :
                session = [FreshSession EXCEPT !.admin_key = <<FallbackKey>>,
                                               !.leads = <<n>>,
                                               !.scino_followup_rate = <<f>>,
                                               !.scino_close_rate = <<c>>]

NextFunnel == RerunScript

SpecFunnel == InitFunnel /\ [][NextFunnel]_vars

(***************************************************************************)
(* Properties                                                              *)
(***************************************************************************)
\* the script has run at least once (its input leads is at least 1)
HasRun == env.leads >= 1

\* C1: whenever is_admin is false, every assumption the evaluation uses is
\* its hardcoded default, whatever the session holds for the admin widgets,
\* and the counts are the ones the defaults give.
C1_LockedUsesDefaults ==
    ~env.is_admin =>
        /\ env.baseline_followup_rate = 30
        /\ env.baseline_close_rate = 5
        /\ env.lost_unassigned_rate = 40
        /\ env.dormant_rate = 30
        /\ env.scino_followup_rate = 100
        /\ env.scino_close_rate = 15
        /\ env.scino_cost = 10000000
        /\ env.resp_time_hours = 24
        /\ env.worked_leads_base = round(TimesRate(env.leads, 30))
        /\ env.worked_leads_scino = env.leads
        /\ env.unassigned_leads = round(TimesRate(env.leads, 40))
        /\ ~isnan(env.roi_multiple)

\* C1 witness: a wrong key is supplied while the session still holds
\* overrides for the admin widgets
C1_Witness ==
    /\ ~env.is_admin
    /\ env.admin_key # <<>>
    /\ session.baseline_followup_rate = <<70>>
    /\ session.scino_cost = <<0>>
    /\ session.resp_time_hours = <<72>>

\* key is pre \o secret \o post with pre and post whitespace only, and secret
\* itself neither starts nor ends with whitespace
TrimsTo(key, secret) ==
    /\ secret = <<>> \/ (secret[1] \notin Whitespace /\ secret[Len(secret)] \notin Whitespace)
    /\ \E i \in 0..Len(key) :
          /\ i + Len(secret) <= Len(key)
          /\ \A n \in 1..i : key[n] \in Whitespace
          /\ \A n \in 1..Len(secret) : key[i + n] = secret[n]
          /\ \A n \in (i + Len(secret) + 1)..Len(key) : key[n] \in Whitespace

\* C2: is_admin is true exactly when the key, with its surrounding whitespace
\* removed, is the configured secret, "scino360" when none is configured.
C2_AdminGate ==
    HasRun =>
        (env.is_admin <=>
            TrimsTo(env.admin_key, IF secrets = <<>> THEN FallbackKey ELSE secrets[1]))

\* C2 witness: a key that differs from the fallback secret only by the
\* whitespace around it has unlocked admin mode
C2_Witness ==
    /\ HasRun
    /\ secrets = <<>>
    /\ env.is_admin
    /\ Len(env.admin_key) > Len(FallbackKey)
    /\ env.admin_key[Len(env.admin_key)] \in Whitespace

\* C3: with a program cost of 0 roi_multiple is the NaN sentinel and the
\* placeholder is rendered; with a positive cost it is
\* (incremental_gain - scino_cost) / scino_cost and is rendered as a number.
C3_RoiMultiple ==
    /\ env.scino_cost = 0 =>
          /\ isnan(env.roi_multiple)
          /\ env.roi_txt.text = "-"
    /\ env.scino_cost > 0 =>
          /\ env.roi_multiple = Frac(env.incremental_gain - env.scino_cost, env.scino_cost)
          /\ env.roi_txt.text # "-"
          /\ env.roi_txt.of = env.roi_multiple

\* C3 witness: an evaluation with the program cost overridden to 0
C3_Witness ==
    /\ env.is_admin
    /\ env.scino_cost = 0
    /\ env.incremental_gain # 0
    /\ isnan(env.roi_multiple)

NonIncreasing(f) == \A i \in 1..(Len(f) - 1) : f[i + 1].value <= f[i].value

\* C4: for every lead count and every pair of rates in [0,1], closed deals
\* <= worked leads <= leads in both funnels, so each funnel's stage values
\* are non-increasing.
C4_FunnelMonotone ==
    HasRun =>
        /\ env.closed_deals_base <= env.worked_leads_base
        /\ env.worked_leads_base <= env.leads
        /\ env.closed_deals_scino <= env.worked_leads_scino
        /\ env.worked_leads_scino <= env.leads
        /\ Len(env.funnel_base) = 3 /\ NonIncreasing(env.funnel_base)
        /\ Len(env.funnel_scino) = 3 /\ NonIncreasing(env.funnel_scino)
        /\ env.funnel_base[2].value = env.worked_leads_base
        /\ env.funnel_base[3].value = env.closed_deals_base

\* C4 witness: both roundings go up to the stage above (3 leads, 84% worked
\* is 2.52 -> 3; 3 worked, 90% closed is 2.7 -> 3) in the baseline funnel
C4_Witness ==
    /\ HasRun
    /\ env.leads = 3
    /\ env.baseline_followup_rate < 100
    /\ env.baseline_close_rate < 100
    /\ env.worked_leads_base = 3
    /\ env.closed_deals_base = 3

\* C5: scenario 1: 150 leads, spend 1,800,000, deal value 18,000,000, admin
\* locked: cost per lead 12,000, baseline 45 worked, 2 closed, 36,000,000;
\* treatment 150 worked, 22 closed, 396,000,000; gain 360,000,000; ROI 35.
C5_Scenario1 ==
    (/\ env.leads = 150
     /\ env.event_spend = 1800000
     /\ env.deal_value = 18000000
     /\ ~env.is_admin)
    =>
        /\ env.cost_per_lead = [num |-> 12000, den |-> 1]
        /\ env.worked_leads_base = 45
        /\ env.closed_deals_base = 2
        /\ env.revenue_base = 36000000
        /\ env.worked_leads_scino = 150
        /\ env.closed_deals_scino = 22
        /\ env.revenue_scino = 396000000
        /\ env.incremental_gain = 360000000
        /\ env.roi_multiple = [num |-> 35, den |-> 1]

\* C5 witness: scenario 1 has been evaluated, after the operator had typed
\* the inputs in
C5_Witness ==
    /\ session.leads = <<150>>
    /\ env.leads = 150
    /\ env.event_spend = 1800000
    /\ env.deal_value = 18000000
    /\ ~env.is_admin
    /\ env.closed_deals_scino = 22

\* C6: cost_per_lead is event_spend / leads with nothing rounded away,
\* unassigned_leads is round(leads * lost_unassigned_rate), and
\* recovered_lead_value is unassigned_leads * cost_per_lead; 150 leads,
\* spend 1,800,000 and rate 0.40 give 60 and 720,000.
C6_RecoveredLeadValue ==
    /\ env.cost_per_lead.den > 0
    /\ env.cost_per_lead.num * env.leads = env.event_spend * env.cost_per_lead.den
    /\ env.unassigned_leads = round(TimesRate(env.leads, env.lost_unassigned_rate))
    /\ env.recovered_lead_value.den > 0
    /\ env.recovered_lead_value.num * env.cost_per_lead.den
          = env.unassigned_leads * env.cost_per_lead.num * env.recovered_lead_value.den
    /\ (env.leads = 150 /\ env.event_spend = 1800000 /\ env.lost_unassigned_rate = 40) =>
          /\ env.unassigned_leads = 60
          /\ env.recovered_lead_value = [num |-> 720000, den |-> 1]

\* C6 witness: a spend that the lead count does not divide (100 / 45 = 20/9)
\* with leads left unassigned
C6_Witness ==
    /\ env.leads = 45
    /\ env.event_spend = 100
    /\ env.cost_per_lead = [num |-> 20, den |-> 9]
    /\ env.unassigned_leads = 18
    /\ env.recovered_lead_value = [num |-> 40, den |-> 1]

\* the value an admin widget gives: the operator's, or the default
Resolved(x, default) == IF session[x] = <<>> THEN default ELSE session[x][1]

\* C7: whenever is_admin is true, each assumption is the operator's override
\* for that very field when one is present and its default otherwise.
C7_UnlockedOverrides ==
    env.is_admin =>
        /\ env.baseline_followup_rate = Resolved("baseline_followup_rate", 30)
        /\ env.baseline_close_rate = Resolved("baseline_close_rate", 5)
        /\ env.lost_unassigned_rate = Resolved("lost_unassigned_rate", 40)
        /\ env.dormant_rate = Resolved("dormant_rate", 30)
        /\ env.scino_followup_rate = Resolved("scino_followup_rate", 100)
        /\ env.scino_close_rate = Resolved("scino_close_rate", 15)
        /\ env.scino_cost = Resolved("scino_cost", 10000000)
        /\ env.resp_time_hours = Resolved("resp_time_hours", 24)

\* C7 witness: one rate overridden, its neighbour not
C7_Witness ==
    /\ env.is_admin
    /\ session.baseline_followup_rate = <<70>>
    /\ session.baseline_close_rate = <<>>
    /\ session.scino_cost = <<5000000>>
    /\ env.baseline_followup_rate = 70
    /\ env.baseline_close_rate = 5

\* half-to-even rounding of the real number h/100
RealRoundHalfEven(h) ==
    LET k == h \div 100
        r == h % 100
    IN  IF r < 50 THEN k
        ELSE IF r > 50 THEN k + 1
        ELSE IF k % 2 = 0 THEN k ELSE k + 1

\* C8: every count is the real-valued product rounded to the nearest integer,
\* exact .5 ties to the even integer, and each closed-deals count is taken
\* from the rounded worked-leads count.
C8_RealHalfEven ==
    /\ env.worked_leads_base = RealRoundHalfEven(env.leads * env.baseline_followup_rate)
    /\ env.closed_deals_base = RealRoundHalfEven(env.worked_leads_base * env.baseline_close_rate)
    /\ env.worked_leads_scino = RealRoundHalfEven(env.leads * env.scino_followup_rate)
    /\ env.closed_deals_scino = RealRoundHalfEven(env.worked_leads_scino * env.scino_close_rate)
    /\ env.unassigned_leads = RealRoundHalfEven(env.leads * env.lost_unassigned_rate)

\* C9: what an evaluation leaves is what a run from an empty namespace over
\* the current inputs leaves, so nothing of an earlier evaluation survives;
\* a locked evaluation has the defaults again.
C9_Stateless ==
    /\ env = Script(BlankEnv, session)
    /\ ~env.is_admin => (env.baseline_followup_rate = 30 /\ env.scino_cost = 10000000)

\* C9 witness: a locked evaluation after an unlocked one with overrides (the
\* session still holds them; only an unlocked run can have put them there)
C9_Witness ==
    /\ ~env.is_admin
    /\ session.scino_cost = <<0>>
    /\ session.scino_close_rate = <<7>>
    /\ env.scino_cost = 10000000
    /\ env.closed_deals_scino = round(TimesRate(env.leads, 15))

\* the derived metrics and the two funnels
Metrics(e) ==
    <<e.cost_per_lead, e.worked_leads_base, e.closed_deals_base, e.revenue_base,
      e.worked_leads_scino, e.closed_deals_scino, e.revenue_scino,
      e.incremental_gain, e.roi_multiple, e.unassigned_leads,
      e.recovered_lead_value, e.funnel_base, e.funnel_scino>>

\* C10: two consecutive evaluations whose inputs differ at most in the
\* dormant rate and the target response hours give the same metrics and
\* funnels.
C10_Independent ==
    [][(\A x \in DOMAIN session :
           x \notin {"dormant_rate", "resp_time_hours"} => session'[x] = session[x])
       => Metrics(env') = Metrics(env)]_vars

\* C10 witness: an unlocked evaluation in which only the dormant rate and the
\* response hours are overridden
C10_Witness ==
    /\ env.is_admin
    /\ env.dormant_rate = 50
    /\ env.resp_time_hours = 72
    /\ \A x \in AdminWidgets \ {"dormant_rate", "resp_time_hours"} : session[x] = <<>>

====
